---- MODULE Spec2Model ----
(***************************************************************************)
(* pkg-errors-example: three call chains CallA -> CallB -> CallC that      *)
(* surface a common.MyError, differing in how each frame decorates the     *)
(* error on the way up (bare: unchanged; concat: fmt.Errorf("...: %v");    *)
(* wrap: errors.Wrap), and the inspection done on the result by printErr   *)
(* (%v, %T, errors.Cause, StackTrace).                                     *)
(*                                                                         *)
(* The Go call stack is explicit (stack), pointer-typed errors live in a   *)
(* heap of objects (heap), value-typed errors (common.MyError) are plain   *)
(* values.  A stack-frame descriptor is the function identifier; source    *)
(* line numbers are left out.                                              *)
(***************************************************************************)
EXTENDS Integers, Sequences, FiniteSets, TLC

\* Number of chain functions the caller (main.main) invokes in one run.
MaxCalls == 3
\* Number of inspector queries run on one returned error.
MaxQueries == 2

VARIABLES
  stack,    \* the call stack, outermost first: frames [fn, pc, got]
  heap,     \* allocated error objects, by address 1..Len(heap)
  trail,    \* values returned so far inside the current top-level call
  results,  \* errors returned to main.main, oldest first
  report,   \* answers printed by the inspector for the latest result
  nq        \* number of queries run on the latest result

vars == <<stack, heap, trail, results, report, nq>>

----------------------------------------------------------------------------
\* Error values.

Nil == [type |-> "nil"]

\* common.MyError{Msg: m}: a struct value, compared by value.
MyError(m) == [type |-> "common.MyError", Msg |-> m]

\* A pointer to heap object a, of dynamic type t.
Ptr(t, a) == [type |-> t, addr |-> a]

Chains == {"bare", "concat", "wrap"}

Functions == {c \o "." \o f : c \in Chains, f \in {"CallA", "CallB", "CallC"}}

\* The function a chain function calls before it returns ("" for CallC).
Callee(fn) ==
  CASE fn = "bare.CallA" -> "bare.CallB"
    [] fn = "bare.CallB" -> "bare.CallC"
    [] fn = "concat.CallA" -> "concat.CallB"
    [] fn = "concat.CallB" -> "concat.CallC"
    [] fn = "wrap.CallA" -> "wrap.CallB"
    [] fn = "wrap.CallB" -> "wrap.CallC"
    [] OTHER -> ""

----------------------------------------------------------------------------
\* Rendering, err.Error(), as printed by %v.

RECURSIVE Error(_, _)
Error(h, e) ==
  CASE e.type = "common.MyError" -> "Errrrr: " \o e.Msg
    [] e.type = "*errors.errorString" -> h[e.addr].s
    [] e.type = "*errors.withMessage" ->
         h[e.addr].msg \o ": " \o Error(h, h[e.addr].cause)
    [] e.type = "*errors.withStack" -> Error(h, h[e.addr].error)
    [] OTHER -> "<nil>"

\* The dynamic type, as printed by %T.
TypeOf(e) == e.type

----------------------------------------------------------------------------
\* Constructors used by the chains.  Each returns the new heap and the value.

\* fmt.Errorf(prefix + ": %v", err)
Errorf(h, prefix, err) ==
  [heap |-> Append(h, [s |-> prefix \o ": " \o Error(h, err)]),
   val  |-> Ptr("*errors.errorString", Len(h) + 1)]

\* The function identifiers of the running frames, innermost first.
RECURSIVE callers(_)
callers(st) ==
  IF st = <<>> THEN <<>>
  ELSE <<st[Len(st)].fn>> \o callers(SubSeq(st, 1, Len(st) - 1))

\* Variant of Wrap that keeps the stack of an error that already has one
\* instead of capturing the stack of its own call site.
Wrap_keepStack(h, err, message, st) ==
  IF err = Nil THEN [heap |-> h, val |-> Nil]
  ELSE [heap |-> h \o << [cause |-> err, msg |-> message],
                         [error |-> Ptr("*errors.withMessage", Len(h) + 1),
                          stack |-> IF err.type = "*errors.withStack"
                                    THEN h[err.addr].stack
                                    ELSE callers(st)] >>,
        val  |-> Ptr("*errors.withStack", Len(h) + 2)]

\* errors.Wrap(err, message), called with the call stack st.
Wrap(h, err, message, st) ==
  IF err = Nil THEN [heap |-> h, val |-> Nil]
  ELSE [heap |-> h \o << [cause |-> err, msg |-> message],
                         [error |-> Ptr("*errors.withMessage", Len(h) + 1),
                          stack |-> callers(st)] >>,
        val  |-> Ptr("*errors.withStack", Len(h) + 2)]

----------------------------------------------------------------------------
\* Inspection (printErr): errors.Cause and the stackTracer probe.

\* The causer capability: withStack and withMessage have a Cause() method.
HasCause(e) == e.type \in {"*errors.withStack", "*errors.withMessage"}

\* One step of unwrapping, e.Cause().
Inner(h, e) ==
  CASE e.type = "*errors.withStack" -> h[e.addr].error
    [] e.type = "*errors.withMessage" -> h[e.addr].cause
    [] OTHER -> Nil

\* errors.Cause(err): unwrap while the error is a causer.
RECURSIVE Cause(_, _)
Cause(h, e) == IF HasCause(e) THEN Cause(h, Inner(h, e)) ELSE e

\* The number of Cause() steps errors.Cause(err) takes.
RECURSIVE Links(_, _)
Links(h, e) == IF HasCause(e) THEN 1 + Links(h, Inner(h, e)) ELSE 0

\* printStack: the frames if err is a stackTracer, else "No stack trace...".
StackTrace(h, e) ==
  IF e.type = "*errors.withStack"
  THEN [ok |-> TRUE, frames |-> h[e.addr].stack]
  ELSE [ok |-> FALSE, frames |-> <<>>]

Queries == {"Message", "Kind", "RootCause", "StackTrace"}

\* Everything the inspector can read off e in heap h.
Observe(h, e) ==
  [Message    |-> Error(h, e),
   Kind       |-> TypeOf(e),
   RootCause  |-> Cause(h, e),
   StackTrace |-> StackTrace(h, e),
   Inner      |-> Inner(h, e),
   Links      |-> Links(h, e)]

----------------------------------------------------------------------------
\* The chain functions: the value of the return expression, given the heap h,
\* the call stack st (the function's own frame on top) and the callee's
\* result got.

bare_CallC(h, st, got) == [heap |-> h, val |-> MyError("Error from CallC")]

\* Variant of bare.CallB that annotates the error as concat.CallB does.
bare_CallB_annotated(h, st, got) == Errorf(h, "Error from CallB", got)

bare_CallB(h, st, got) == [heap |-> h, val |-> got]

bare_CallA(h, st, got) == [heap |-> h, val |-> got]

concat_CallC(h, st, got) == [heap |-> h, val |-> MyError("Error from CallC")]

concat_CallB(h, st, got) == Errorf(h, "Error from CallB", got)

\* Variant of concat.CallA that wraps the error as wrap.CallA does.
concat_CallA_wrapped(h, st, got) == Wrap(h, got, "Error from CallA", st)

concat_CallA(h, st, got) == Errorf(h, "Error from CallA", got)

wrap_CallC(h, st, got) == [heap |-> h, val |-> MyError("Error from CallC")]

\* Variant of wrap.CallB that formats the error as concat.CallB does.
wrap_CallB_formatted(h, st, got) == Errorf(h, "Error from CallB", got)

\* Variant of wrap.CallB that hands the error up as bare.CallB does.
wrap_CallB_bare(h, st, got) == [heap |-> h, val |-> got]

\* Variant of wrap.CallB that calls errors.WithStack(err): a stack snapshot
\* and no annotation.
wrap_CallB_withStack(h, st, got) ==
  [heap |-> Append(h, [error |-> got, stack |-> callers(st)]),
   val  |-> Ptr("*errors.withStack", Len(h) + 1)]

wrap_CallB(h, st, got) == Wrap(h, got, "Error from CallB", st)

\* Variant of wrap.CallA with the annotation of CallB.
wrap_CallA_wrongText(h, st, got) == Wrap(h, got, "Error from CallB", st)

\* Variant of wrap.CallA that calls errors.WithMessage(err, ...): an
\* annotation and no stack snapshot.
wrap_CallA_withMessage(h, st, got) ==
  [heap |-> Append(h, [cause |-> got, msg |-> "Error from CallA"]),
   val  |-> Ptr("*errors.withMessage", Len(h) + 1)]

\* Variant of wrap.CallA that keeps the error it built in a package variable
\* and wraps that one again on every later call.
wrap_CallA_cached(h, st, got) ==
  LET prev == {a \in 1..Len(h) : /\ "stack" \in DOMAIN h[a]
                                 /\ Head(h[a].stack) = "wrap.CallA"}
  IN IF prev = {} THEN Wrap(h, got, "Error from CallA", st)
     ELSE Wrap(h, Ptr("*errors.withStack", CHOOSE a \in prev : TRUE),
               "Error from CallA", st)

\* Variant of wrap.CallA that writes its annotation into the error it
\* received instead of building a new one.
wrap_CallA_inPlace(h, st, got) ==
  IF got.type = "*errors.withStack"
  THEN [heap |-> [h EXCEPT ![h[got.addr].error.addr].msg =
                               "Error from CallA" \o ": " \o @],
        val  |-> got]
  ELSE Wrap(h, got, "Error from CallA", st)

wrap_CallA(h, st, got) == Wrap(h, got, "Error from CallA", st)

Body(fn, h, st, got) ==
  CASE fn = "bare.CallA" -> bare_CallA(h, st, got)
    [] fn = "bare.CallB" -> bare_CallB(h, st, got)
    [] fn = "bare.CallC" -> bare_CallC(h, st, got)
    [] fn = "concat.CallA" -> concat_CallA(h, st, got)
    [] fn = "concat.CallB" -> concat_CallB(h, st, got)
    [] fn = "concat.CallC" -> concat_CallC(h, st, got)
    [] fn = "wrap.CallA" -> wrap_CallA(h, st, got)
    [] fn = "wrap.CallB" -> wrap_CallB(h, st, got)
    [] fn = "wrap.CallC" -> wrap_CallC(h, st, got)

----------------------------------------------------------------------------
\* The state machine.

Frame(fn) == [fn |-> fn, pc |-> IF Callee(fn) = "" THEN "ret" ELSE "call",
              got |-> Nil]

Top == stack[Len(stack)]

Pop(st) == SubSeq(st, 1, Len(st) - 1)

SetTop(st, f) == [st EXCEPT ![Len(st)] = f]

Idle == Top.fn = "main.main"

Init ==
  /\ stack = <<Frame("runtime.goexit"), Frame("runtime.main"),
               Frame("main.main")>>
  /\ heap = <<>>
  /\ trail = <<>>
  /\ results = <<>>
  /\ report = {}
  /\ nq = 0

\* main.main calls a chain function.
Invoke(fn) ==
  /\ Idle
  /\ Len(results) < MaxCalls
  /\ stack' = Append(stack, Frame(fn))
  /\ trail' = <<>>
  /\ UNCHANGED <<heap, results, report, nq>>

\* CallA calls CallB, CallB calls CallC: the argument of the return
\* expression is evaluated first.
Enter ==
  /\ Top.fn \in Functions
  /\ Top.pc = "call"
  /\ stack' = Append(SetTop(stack, [Top EXCEPT !.pc = "ret"]),
                     Frame(Callee(Top.fn)))
  /\ UNCHANGED <<heap, trail, results, report, nq>>

\* The running function evaluates its return expression and returns to its
\* caller; main.main keeps the error for inspection.
Return ==
  /\ Top.fn \in Functions
  /\ Top.pc = "ret"
  /\ LET r  == Body(Top.fn, heap, stack, Top.got)
         ev == [fn |-> Top.fn, val |-> r.val, obs |-> Observe(r.heap, r.val)]
         st == Pop(stack)
         caller == st[Len(st)]
     IN /\ heap' = r.heap
        /\ trail' = Append(trail, ev)
        /\ IF caller.fn = "main.main"
           THEN /\ stack' = st
                /\ results' = Append(results,
                                [fn |-> Top.fn, val |-> r.val,
                                 obs |-> ev.obs, trail |-> trail'])
                /\ report' = {}
                /\ nq' = 0
           ELSE /\ stack' = SetTop(st, [caller EXCEPT !.got = r.val])
                /\ UNCHANGED <<results, report, nq>>

\* printErr runs one of its queries on the error it was handed.
Inspect(q) ==
  /\ Idle
  /\ results # <<>>
  /\ nq < MaxQueries
  /\ report' = report \cup
       {[q |-> q, ans |-> Observe(heap, results[Len(results)].val)[q]]}
  /\ nq' = nq + 1
  /\ UNCHANGED <<stack, heap, trail, results>>

Next ==
  \/ \E fn \in Functions : Invoke(fn)
  \/ Enter
  \/ Return
  \/ \E q \in Queries : Inspect(q)

Spec == Init /\ [][Next]_vars

----------------------------------------------------------------------------
\* Vocabulary of the properties.

\* The indices of the errors main.main received from fn.
ResultsOf(fn) == {i \in 1..Len(results) : results[i].fn = fn}

\* What the inspector reads off results[i] now.
Now(i) == Observe(heap, results[i].val)

\* e unwrapped n times.
RECURSIVE Unwrap(_, _, _)
Unwrap(h, e, n) == IF n = 0 THEN e ELSE Unwrap(h, Inner(h, e), n - 1)

RootMessage == "Errrrr: Error from CallC"

AnnotatedMessage == "Error from CallA: Error from CallB: Errrrr: Error from CallC"

\* The frames below any function main.main calls, innermost first.
BaseFrames == <<"main.main", "runtime.main", "runtime.goexit">>

----------------------------------------------------------------------------
\* C1 (as stated): the error bare.CallA() returns is the value bare.CallC()
\* produced, handed up unchanged by CallB and CallA; its kind is
\* common.MyError, its rendered message is "Error from CallC", and RootCause
\* returns that same value following zero links.
C1_AsStated ==
  \A i \in ResultsOf("bare.CallA") :
    /\ Len(results[i].trail) = 3
    /\ results[i].trail[1].fn = "bare.CallC"
    /\ \A k \in 1..3 : results[i].trail[k].val = results[i].val
    /\ Now(i).Kind = "common.MyError"
    /\ Now(i).Message = "Error from CallC"
    /\ Now(i).RootCause = results[i].val
    /\ Now(i).Links = 0

\* C1 (amended): as C1, except that the rendered message is
\* "Errrrr: Error from CallC": common.MyError renders its Msg field
\* "Error from CallC" behind the prefix "Errrrr: ".
C1_BarePassThrough ==
  \A i \in ResultsOf("bare.CallA") :
    /\ Len(results[i].trail) = 3
    /\ results[i].trail[1].fn = "bare.CallC"
    /\ \A k \in 1..3 : results[i].trail[k].val = results[i].val
    /\ results[i].val = MyError("Error from CallC")
    /\ Now(i).Kind = "common.MyError"
    /\ Now(i).Message = RootMessage
    /\ Now(i).RootCause = results[i].val
    /\ Now(i).Links = 0

C1_Witness ==
  /\ ResultsOf("bare.CallA") # {}
  /\ [q |-> "RootCause", ans |-> MyError("Error from CallC")] \in report
  /\ results[Len(results)].fn = "bare.CallA"

\* C2 (as stated): the rendered message of the error wrap.CallA() returns is
\* exactly "Error from CallA: Error from CallB: Error from CallC".
C2_AsStated ==
  \A i \in ResultsOf("wrap.CallA") :
    Now(i).Message = "Error from CallA: Error from CallB: Error from CallC"

\* C2 (amended): the rendered message of the error wrap.CallA() returns is
\* exactly "Error from CallA: Error from CallB: Errrrr: Error from CallC":
\* the annotations of A and B, outermost first, then the root error as
\* common.MyError renders it, separated by ": ".
C2_WrappedMessage ==
  \A i \in ResultsOf("wrap.CallA") :
    /\ Now(i).Message = AnnotatedMessage
    /\ Now(i).Message =
         "Error from CallA" \o ": " \o "Error from CallB" \o ": "
           \o Error(heap, results[i].trail[1].val)

C2_Witness ==
  /\ results # <<>>
  /\ results[Len(results)].fn = "wrap.CallA"
  /\ [q |-> "Message", ans |-> AnnotatedMessage] \in report

\* C3 (as stated): following the inner-error reference from the error
\* wrap.CallA() returns terminates at a value with the kind common.MyError and
\* the rendered message "Error from CallC" of the value wrap.CallC() produced;
\* the top-level error is not of kind common.MyError.
C3_AsStated ==
  \A i \in ResultsOf("wrap.CallA") :
    /\ \E n \in 0..Len(heap) : ~HasCause(Unwrap(heap, results[i].val, n))
    /\ Now(i).RootCause = results[i].trail[1].val
    /\ TypeOf(Now(i).RootCause) = "common.MyError"
    /\ Error(heap, Now(i).RootCause) = "Error from CallC"
    /\ Now(i).Kind # "common.MyError"

\* C3 (amended): following the inner-error reference from the error
\* wrap.CallA() returns terminates within as many steps as there are error
\* objects, at the very value wrap.CallC() produced: its kind is
\* common.MyError, its Msg is "Error from CallC" and its rendered message is
\* "Errrrr: Error from CallC"; the top-level error is not of kind
\* common.MyError.
C3_RootCauseReachable ==
  \A i \in ResultsOf("wrap.CallA") :
    /\ \E n \in 0..Len(heap) : ~HasCause(Unwrap(heap, results[i].val, n))
    /\ results[i].trail[1].fn = "wrap.CallC"
    /\ Now(i).RootCause = results[i].trail[1].val
    /\ Now(i).RootCause = MyError("Error from CallC")
    /\ TypeOf(Now(i).RootCause) = "common.MyError"
    /\ Error(heap, Now(i).RootCause) = RootMessage
    /\ Now(i).Kind # "common.MyError"

C3_Witness ==
  /\ results # <<>>
  /\ results[Len(results)].fn = "wrap.CallA"
  /\ HasCause(results[Len(results)].val)
  /\ [q |-> "RootCause", ans |-> MyError("Error from CallC")] \in report

\* The number of errors.Wrap calls made on the way up to results[i].
Wraps(i) ==
  Cardinality({k \in 1..Len(results[i].trail) :
                 results[i].trail[k].fn \in {"wrap.CallA", "wrap.CallB"}})

\* C4 (as stated): errors.Cause follows exactly 2 inner-error links on the
\* result of wrap.CallA(), one per wrapping call frame.
C4_AsStated ==
  \A i \in ResultsOf("wrap.CallA") :
    /\ Wraps(i) = 2
    /\ Now(i).Links = Wraps(i)

\* C4 (amended): errors.Cause follows exactly 4 inner-error links on the
\* result of wrap.CallA(), two per wrapping call frame: each errors.Wrap
\* builds a *errors.withStack holding a *errors.withMessage holding the
\* wrapped error, and both answer Cause().
C4_ChainLength ==
  \A i \in ResultsOf("wrap.CallA") :
    /\ Wraps(i) = 2
    /\ Now(i).Links = 2 * Wraps(i)
    /\ \A n \in 0..3 : HasCause(Unwrap(heap, results[i].val, n))
    /\ ~HasCause(Unwrap(heap, results[i].val, 4))
    /\ \A n \in {0, 2} :
         /\ TypeOf(Unwrap(heap, results[i].val, n)) = "*errors.withStack"
         /\ TypeOf(Unwrap(heap, results[i].val, n + 1)) = "*errors.withMessage"

C4_Witness ==
  \E i \in ResultsOf("wrap.CallA") :
    /\ Now(i).Links = 4
    /\ Unwrap(heap, results[i].val, 4) = MyError("Error from CallC")

\* C5: StackTrace on the result of wrap.CallA() returns a non-empty sequence
\* of frames, innermost first, that starts with wrap.CallA and continues with
\* its callers; on the results of bare.CallA() and concat.CallA() it reports
\* that no stack trace is available.
C5_StackTrace ==
  /\ \A i \in ResultsOf("wrap.CallA") :
       /\ Now(i).StackTrace.ok
       /\ Now(i).StackTrace.frames # <<>>
       /\ Head(Now(i).StackTrace.frames) = "wrap.CallA"
       /\ Now(i).StackTrace.frames = <<"wrap.CallA">> \o BaseFrames
  /\ \A i \in ResultsOf("bare.CallA") \cup ResultsOf("concat.CallA") :
       /\ ~Now(i).StackTrace.ok
       /\ Now(i).StackTrace.frames = <<>>

C5_Witness ==
  /\ ResultsOf("wrap.CallA") # {}
  /\ ResultsOf("bare.CallA") \cup ResultsOf("concat.CallA") # {}
  /\ \E r \in report : r.q = "StackTrace"

\* C6 (as stated): the error concat.CallA() returns has the message
\* "Error from CallA: Error from CallB: Error from CallC", a kind other than
\* common.MyError, no inner-error link, and is its own RootCause.
C6_AsStated ==
  \A i \in ResultsOf("concat.CallA") :
    /\ Now(i).Message = "Error from CallA: Error from CallB: Error from CallC"
    /\ Now(i).Kind # "common.MyError"
    /\ ~HasCause(results[i].val)
    /\ Now(i).RootCause = results[i].val

\* C6 (amended): the error concat.CallA() returns has the message
\* "Error from CallA: Error from CallB: Errrrr: Error from CallC", a kind
\* other than common.MyError (*errors.errorString), no inner-error link, and
\* is its own RootCause: the common.MyError of CallC is not reached.
C6_AnnotatedOpaque ==
  \A i \in ResultsOf("concat.CallA") :
    /\ Now(i).Message = AnnotatedMessage
    /\ Now(i).Kind # "common.MyError"
    /\ Now(i).Kind = "*errors.errorString"
    /\ ~HasCause(results[i].val)
    /\ Now(i).Links = 0
    /\ Now(i).RootCause = results[i].val
    /\ Now(i).RootCause # results[i].trail[1].val

C6_Witness ==
  /\ results # <<>>
  /\ results[Len(results)].fn = "concat.CallA"
  /\ results[Len(results)].trail[1].val = MyError("Error from CallC")
  /\ \E r \in report : r.q = "RootCause" /\ r.ans = results[Len(results)].val

\* f occurs in the frame sequence fs.
InFrames(f, fs) == \E k \in 1..Len(fs) : fs[k] = f

\* C7: each wrapping step of wrap.CallA() carries its own stack snapshot: the
\* error built by wrap.CallB has the frames wrap.CallB, wrap.CallA and their
\* callers, the error built by wrap.CallA starts at wrap.CallA and does not
\* contain wrap.CallB; both are readable, each from its own error, once
\* CallA has returned.
C7_OwnSnapshots ==
  \A i \in ResultsOf("wrap.CallA") :
    LET inner == results[i].trail[2].val
        fsB   == StackTrace(heap, inner)
        fsA   == StackTrace(heap, results[i].val)
    IN /\ results[i].trail[2].fn = "wrap.CallB"
       /\ Unwrap(heap, results[i].val, 2) = inner
       /\ inner # results[i].val
       /\ fsB.ok /\ fsA.ok
       /\ fsB.frames = <<"wrap.CallB", "wrap.CallA">> \o BaseFrames
       /\ Head(fsA.frames) = "wrap.CallA"
       /\ ~InFrames("wrap.CallB", fsA.frames)

C7_Witness ==
  \E i \in ResultsOf("wrap.CallA") :
    /\ StackTrace(heap, results[i].trail[2].val).frames[2] = "wrap.CallA"
    /\ Len(StackTrace(heap, results[i].val).frames) = 4

CallAs == {"bare.CallA", "concat.CallA", "wrap.CallA"}

\* C8: two errors returned by the same CallA, whatever main.main called
\* before or in between, have the same Message and the same Kind, both as
\* read when each was returned and as read now.
C8_Idempotent ==
  \A fn \in CallAs : \A i, j \in ResultsOf(fn) :
    /\ results[i].obs.Message = results[j].obs.Message
    /\ results[i].obs.Kind = results[j].obs.Kind
    /\ Now(i).Message = Now(j).Message
    /\ Now(i).Kind = Now(j).Kind

C8_Witness ==
  \E i, j \in ResultsOf("wrap.CallA") :
    /\ j = i + 2
    /\ results[i + 1].fn \in {"concat.CallA", "bare.CallA"}
    /\ results[i].val # results[j].val

\* The events of all finished calls and of the call in progress: every value
\* a chain function has returned, to main.main or to its caller in the chain.
Events ==
  UNION {{results[i].trail[k] : k \in 1..Len(results[i].trail)} :
           i \in 1..Len(results)} \cup
  {trail[k] : k \in 1..Len(trail)}

EventsOf(fn) == {e \in Events : e.fn = fn}

\* C9: at every frame X in {A, B, C} the error wrap.CallX() returns renders
\* to the same message as the error concat.CallX() returns; the concat
\* results have no inner-error link, the wrap results of CallA and CallB
\* have one.
C9_MessageEquivalent ==
  \A x \in {"CallA", "CallB", "CallC"} :
    /\ \A w \in EventsOf("wrap." \o x) : \A c \in EventsOf("concat." \o x) :
         Error(heap, w.val) = Error(heap, c.val)
    /\ \A c \in EventsOf("concat." \o x) : ~HasCause(c.val)
    /\ \A w \in EventsOf("wrap." \o x) : HasCause(w.val) <=> x # "CallC"

C9_Witness ==
  /\ ResultsOf("wrap.CallA") # {}
  /\ ResultsOf("concat.CallA") # {}
  /\ ResultsOf("wrap.CallB") \cup ResultsOf("concat.CallB") # {}
  /\ \A x \in {"CallA", "CallB", "CallC"} :
       EventsOf("wrap." \o x) # {} /\ EventsOf("concat." \o x) # {}

\* C10: error values never change and the inspector only reads: whatever
\* has been returned by a chain function, to main.main or to an outer frame
\* that went on to wrap it, still shows the message, kind, root cause, stack
\* snapshot and inner-error link it had when it was returned, and every
\* answer the inspector has printed for the latest error is the answer the
\* same query gives now.
C10_Immutable ==
  /\ \A e \in Events : Observe(heap, e.val) = e.obs
  /\ \A r \in report :
       /\ r.ans = Now(Len(results))[r.q]
       /\ r.ans = results[Len(results)].obs[r.q]
  /\ \A r1, r2 \in report : r1.q = r2.q => r1.ans = r2.ans

C10_Witness ==
  /\ Len(results) >= 2
  /\ results[1].fn = "wrap.CallA"
  /\ results[Len(results)].fn = "wrap.CallA"
  /\ nq = 2
  /\ Cardinality(report) = 1

====
